---- MODULE Spec2Model ----
(***************************************************************************)
(* Approval-workflow engine of src/server/api/routers/workflow.ts over the *)
(* tables of src/server/db/schema.ts.                                      *)
(*                                                                         *)
(* Every router procedure runs inside db.transaction: an error thrown      *)
(* anywhere in the callback rolls back every row written by that call.     *)
(* Identity columns are PostgreSQL sequences, which a rollback does not    *)
(* rewind.  Each procedure is therefore one atomic action here.            *)
(*                                                                         *)
(* handleRejection and handleApproval are called by takeAction but are not *)
(* defined in the source files; they are modelled from sections 4.3 and    *)
(* 4.4 of the specification.                                               *)
(***************************************************************************)
EXTENDS Integers, Sequences, FiniteSets, TLC

VARIABLES
    workflowTemplates,        \* set of template ids
    workflowSteps,            \* step id -> row
    workflowStepTransitions,  \* transition id -> row
    userRoles,                \* set of <<userId, roleId>>
    workflowInstances,        \* sequence of rows, id = position
    workflowStepAssignments,  \* sequence of rows, id = position
    workflowActions,          \* sequence of rows in insertion order
    actionSeq,                \* last value of the workflow_actions identity
    now,                      \* logical clock of committed transactions
    accepted,                 \* per instance: takeAction calls that returned
    last,                     \* the last call: its input and its outcome
    templateSeq,              \* last value of the workflow_templates identity
    stepSeq,                  \* last value of the workflow_steps identity
    transitionSeq,            \* last value of the workflow_step_transitions identity
    open                      \* takeAction transactions in flight

tables == <<workflowTemplates, workflowSteps, workflowStepTransitions, userRoles>>
seqs == <<templateSeq, stepSeq, transitionSeq>>
vars == <<workflowTemplates, workflowSteps, workflowStepTransitions, userRoles,
          workflowInstances, workflowStepAssignments, workflowActions,
          actionSeq, now, accepted, last, templateSeq, stepSeq, transitionSeq,
          open>>

----------------------------------------------------------------------------
\* Bounds of the model.
MaxInstances == 1
MaxActions == 2

\* A nullable integer column holding no value (identity ids start at 1).
NULL == 0
\* A nullable text column (users.id) holding no value.
NoUser == "null"
\* A transition without condition_type.
NoCond == "none"

Users == {"u1", "u2"}
\* The ids of the rows of the roles table.
Roles == {1, 2, 3}
\* The transactions that may be in flight at once.
Txs == {"t1", "t2"}
Idle == [pc |-> "idle"]
ActionTypes == {"APPROVE", "REJECT", "MODIFY"}
Terminal == {"COMPLETED", "REJECTED"}

\* Template ids a caller may ask for; 4 is the id of no template.
RequestedTemplates == {1, 2, 3, 4}

----------------------------------------------------------------------------
\* Contents of the template tables and of user_roles the engine may find.

StepRow(t, o, r, cm, rej) ==
    [workflowTemplateId |-> t, stepOrder |-> o, roleId |-> r,
     canModify |-> cm, rejectionStepId |-> rej]

TransitionRow(f, t, c) ==
    [fromStepId |-> f, toStepId |-> t, conditionType |-> c]

\* Template 1: steps 1 (entry), 2, 3; template 2: step 4 (entry, no
\* outgoing transition); template 3: step 5 only, of order 2 (no entry step).
StepTables ==
    { [s \in 1..5 |->
         CASE s = 1 -> StepRow(1, 1, 1, FALSE, rej[1])
           [] s = 2 -> StepRow(1, 2, 2, TRUE, rej[2])
           [] s = 3 -> StepRow(1, 3, 3, FALSE, NULL)
           [] s = 4 -> StepRow(2, 1, 2, TRUE, NULL)
           [] s = 5 -> StepRow(3, 2, 1, FALSE, NULL)]
      : rej \in { <<NULL, NULL>>, <<1, 1>>, <<NULL, 3>> } }

\* Two transitions leave step 1; the lower id leads to the higher step.
TransitionTables ==
    { [t \in 1..3 |->
         CASE t = 1 -> TransitionRow(1, 3, c[1])
           [] t = 2 -> TransitionRow(1, 2, c[2])
           [] t = 3 -> TransitionRow(2, 3, NoCond)]
      : c \in { <<NoCond, NoCond>>, <<"flagSet", NoCond>>, <<"flagSet", "flagSet">> } }

UserRoleTables ==
    { { <<"u1", 1>>, <<"u2", 2>>, <<"u2", 3>> },
      { <<"u1", 1>>, <<"u2", 1>>, <<"u2", 2>> },
      { <<"u2", 2>> } }

----------------------------------------------------------------------------
\* Rows

\* A plausible slip: completed_at is given a default of now() like created_at.
InstanceRowStamped(t, s, u) ==
    [workflowTemplateId |-> t, currentStepId |-> s, currentAssigneeId |-> u,
     entityType |-> "invoice", entityId |-> 42,
     status |-> "ACTIVE", completedAt |-> now + 1]

InstanceRow(t, s, u) ==
    [workflowTemplateId |-> t, currentStepId |-> s, currentAssigneeId |-> u,
     entityType |-> "invoice", entityId |-> 42,
     status |-> "ACTIVE", completedAt |-> NULL]

\* A plausible slip: the row is written with the wrong status.
AssignmentRowCompleted(i, s, u) ==
    [workflowInstanceId |-> i, stepId |-> s, assigneeId |-> u,
     status |-> "COMPLETED", completedAt |-> NULL]

AssignmentRow(i, s, u) ==
    [workflowInstanceId |-> i, stepId |-> s, assigneeId |-> u,
     status |-> "PENDING", completedAt |-> NULL]

ActionRow(id, i, s, u, a) ==
    [id |-> id, workflowInstanceId |-> i, stepId |-> s, userId |-> u,
     actionType |-> a]

Call(op, id, u, a, f, e) ==
    [op |-> op, id |-> id, userId |-> u, actionType |-> a, flag |-> f, err |-> e]

TypeOK ==
    /\ workflowInstances \in Seq([workflowTemplateId : Nat, currentStepId : Nat,
                                  currentAssigneeId : Users \cup {NoUser},
                                  entityType : {"invoice"}, entityId : {42},
                                  status : {"ACTIVE"} \cup Terminal,
                                  completedAt : Nat])
    /\ actionSeq \in 0..MaxActions
    /\ Len(workflowInstances) <= MaxInstances

Init ==
    /\ workflowTemplates = {1, 2, 3}
    /\ workflowSteps \in StepTables
    /\ workflowStepTransitions \in TransitionTables
    /\ userRoles \in UserRoleTables
    /\ workflowInstances = << >>
    /\ workflowStepAssignments = << >>
    /\ workflowActions = << >>
    /\ actionSeq = 0
    /\ now = 0
    /\ accepted = << >>
    /\ last = Call("none", NULL, NoUser, "-", FALSE, "ok")
    /\ templateSeq = 3
    /\ stepSeq = 5
    /\ transitionSeq = 3
    /\ open = [p \in Txs |-> Idle]

----------------------------------------------------------------------------
\* startWorkflow

\* with: { steps: { where: eq(workflowSteps.stepOrder, 1), limit: 1 } }
\* The rows the nested query may return for a template: LIMIT 1 without an
\* ORDER BY yields any one step of order 1.
EntrySteps(templateId) ==
    { s \in DOMAIN workflowSteps :
        /\ workflowSteps[s].workflowTemplateId = templateId
        /\ workflowSteps[s].stepOrder = 1 }

\* A plausible slip: the role filter is lost and any user_roles row matches.
eligibleAssignmentAnyRole(roleId) ==
    { ur[1] : ur \in userRoles }

\* db.query.userRoles.findFirst({ where: eq(workflowSteps.roleId, roleId) }):
\* the relational query builder binds the column of a where clause to the
\* table being queried, so the filter reads user_roles.role_id = roleId.
\* findFirst without an ORDER BY yields any one of the matching rows.
eligibleAssignment(roleId) ==
    { ur[1] : ur \in { x \in userRoles : x[2] = roleId } }

startWorkflow(templateId) ==
    IF templateId \notin workflowTemplates \/ EntrySteps(templateId) = {}
    THEN /\ last' = Call("startWorkflow", templateId, NoUser, "-", FALSE, "NotFoundError")
         /\ UNCHANGED <<tables, seqs, open, workflowInstances,
                        workflowStepAssignments, workflowActions, actionSeq, now,
                        accepted>>
    ELSE \E firstStep \in EntrySteps(templateId) :
           IF eligibleAssignment(workflowSteps[firstStep].roleId) = {}
           THEN /\ last' = Call("startWorkflow", templateId, NoUser, "-", FALSE,
                                "NoEligibleAssigneeError")
                /\ UNCHANGED <<tables, seqs, open, workflowInstances,
                               workflowStepAssignments, workflowActions, actionSeq,
                               now, accepted>>
           ELSE \E user \in eligibleAssignment(workflowSteps[firstStep].roleId) :
                  /\ Len(workflowInstances) < MaxInstances
                  /\ workflowInstances' =
                        Append(workflowInstances, InstanceRow(templateId, firstStep, user))
                  /\ workflowStepAssignments' =
                        Append(workflowStepAssignments,
                               AssignmentRow(Len(workflowInstances) + 1, firstStep, user))
                  /\ accepted' = Append(accepted, 0)
                  /\ now' = now + 1
                  /\ last' = Call("startWorkflow", templateId, NoUser, "-", FALSE, "ok")
                  /\ UNCHANGED <<tables, seqs, open, workflowActions, actionSeq>>

----------------------------------------------------------------------------
\* handleRejection, handleApproval (sections 4.3 and 4.4 of the specification)

Outcome(e, inst, asg) == [err |-> e, instance |-> inst, assignments |-> asg]

\* resolveAssignee(roleId): any user holding the role.
resolveAssignee(roleId) ==
    { ur[1] : ur \in { x \in userRoles : x[2] = roleId } }

\* The PENDING assignment rows of the step being left become COMPLETED.
CompleteLeft(asg, instanceId, stepId) ==
    [k \in DOMAIN asg |->
        IF /\ asg[k].workflowInstanceId = instanceId
           /\ asg[k].stepId = stepId
           /\ asg[k].status = "PENDING"
        THEN [asg[k] EXCEPT !.status = "COMPLETED", !.completedAt = now + 1]
        ELSE asg[k]]

\* The instance is handed to the destination step: an assignee is resolved
\* for the destination's role, the row of the step being left is completed
\* and a PENDING row is created for the destination.
MoveTo(instanceId, instance, dest) ==
    IF dest \notin DOMAIN workflowSteps
    THEN { Outcome("NotFoundError", instance, workflowStepAssignments) }
    ELSE IF resolveAssignee(workflowSteps[dest].roleId) = {}
    THEN { Outcome("NoEligibleAssigneeError", instance, workflowStepAssignments) }
    ELSE { Outcome("ok",
                   [instance EXCEPT !.currentStepId = dest, !.currentAssigneeId = u],
                   Append(CompleteLeft(workflowStepAssignments, instanceId,
                                       instance.currentStepId),
                          AssignmentRow(instanceId, dest, u)))
           : u \in resolveAssignee(workflowSteps[dest].roleId) }

\* The instance leaves ACTIVE: assignee cleared, completion time set.
Close(instanceId, instance, outcome) ==
    { Outcome("ok",
              [instance EXCEPT !.status = outcome, !.currentAssigneeId = NoUser,
                               !.completedAt = now + 1],
              CompleteLeft(workflowStepAssignments, instanceId,
                           instance.currentStepId)) }

\* A transition is satisfied if it has no condition or its predicate holds in
\* the context of the action (flag: the predicate's value in that context).
Satisfied(t, flag) ==
    \/ workflowStepTransitions[t].conditionType = NoCond
    \/ flag

Lowest(ids) == CHOOSE t \in ids : \A o \in ids : t <= o

\* The transitions are evaluated one by one in ascending identity; the result
\* is the first satisfied one, or NULL.
RECURSIVE FirstSatisfied(_, _)
FirstSatisfied(ids, flag) ==
    IF ids = {} THEN NULL
    ELSE IF Satisfied(Lowest(ids), flag) THEN Lowest(ids)
    ELSE FirstSatisfied(ids \ {Lowest(ids)}, flag)

handleRejection(instanceId, instance, rejectionStepId) ==
    MoveTo(instanceId, instance, rejectionStepId)

handleApproval(instanceId, instance, transitions, flag) ==
    IF FirstSatisfied(transitions, flag) = NULL
    THEN Close(instanceId, instance, "COMPLETED")
    ELSE MoveTo(instanceId, instance,
                workflowStepTransitions[FirstSatisfied(transitions, flag)].toStepId)

----------------------------------------------------------------------------
\* takeAction

\* A plausible slip: the relation is followed through to_step_id.
fromTransitionsByTarget(stepId) ==
    { t \in DOMAIN workflowStepTransitions :
        workflowStepTransitions[t].toStepId = stepId }

\* currentStep: { with: { fromTransitions: true } }: the transitions leaving
\* the step.
fromTransitions(stepId) ==
    { t \in DOMAIN workflowStepTransitions :
        workflowStepTransitions[t].fromStepId = stepId }

\* A plausible slip: the check is dropped.
AuthorizedAlways(instance, userId) == TRUE

\* instance.currentAssigneeId !== input.userId throws.
Authorized(instance, userId) ==
    instance.currentAssigneeId = userId

\* A plausible slip: the audit row is not written.
InsertActionSkipped(log, row) == log

\* A plausible slip: the newest row is put first.
InsertActionFirst(log, row) == <<row>> \o log

\* tx.insert(workflowActions).values({...})
InsertAction(log, row) == Append(log, row)

\* A plausible slip: the APPROVE branch is missing.
DispatchApproveReturns(actionType, rejectionStepId) ==
    IF actionType = "REJECT" /\ rejectionStepId # NULL THEN "handleRejection"
    ELSE "return"

\* A plausible slip: a REJECT with a target falls through to return instance.
DispatchNoRejection(actionType, rejectionStepId) ==
    IF actionType = "APPROVE" THEN "handleApproval" ELSE "return"

\* A plausible slip: MODIFY is routed like APPROVE.
DispatchModifyApproves(actionType, rejectionStepId) ==
    IF actionType = "REJECT" /\ rejectionStepId # NULL THEN "handleRejection"
    ELSE IF actionType \in {"APPROVE", "MODIFY"} THEN "handleApproval"
    ELSE "return"

\* if (REJECT && currentStep?.rejectionStepId) ... else if (APPROVE) ...
\* A rejectionStepId of NULL (or 0) is falsy.
Dispatch(actionType, rejectionStepId) ==
    IF actionType = "REJECT" /\ rejectionStepId # NULL THEN "handleRejection"
    ELSE IF actionType = "APPROVE" THEN "handleApproval"
    ELSE "return"

\* A plausible slip: an error of the handlers is caught and the instance
\* returned as read.
OutcomesSwallowingErrors(instanceId, instance, actionType, flag) ==
    LET rejectionStepId == workflowSteps[instance.currentStepId].rejectionStepId
        branch == Dispatch(actionType, rejectionStepId)
        outs == IF branch = "handleRejection"
                THEN handleRejection(instanceId, instance, rejectionStepId)
                ELSE IF branch = "handleApproval"
                THEN handleApproval(instanceId, instance,
                                    fromTransitions(instance.currentStepId), flag)
                ELSE { Outcome("ok", instance, workflowStepAssignments) }
    IN  { IF o.err = "ok" THEN o
          ELSE Outcome("ok", instance, workflowStepAssignments) : o \in outs }

\* A plausible slip: the instance returned without a handler is written back
\* with its own id in the place of entityId.
OutcomesOverwritingEntity(instanceId, instance, actionType, flag) ==
    LET rejectionStepId == workflowSteps[instance.currentStepId].rejectionStepId
        branch == Dispatch(actionType, rejectionStepId)
    IN  IF branch = "handleRejection"
        THEN handleRejection(instanceId, instance, rejectionStepId)
        ELSE IF branch = "handleApproval"
        THEN handleApproval(instanceId, instance,
                            fromTransitions(instance.currentStepId), flag)
        ELSE { Outcome("ok", [instance EXCEPT !.entityId = instanceId],
                       workflowStepAssignments) }

\* What the rest of the transaction may do after the audit row is inserted.
Outcomes(instanceId, instance, actionType, flag) ==
    LET rejectionStepId == workflowSteps[instance.currentStepId].rejectionStepId
        branch == Dispatch(actionType, rejectionStepId)
    IN  IF branch = "handleRejection"
        THEN handleRejection(instanceId, instance, rejectionStepId)
        ELSE IF branch = "handleApproval"
        THEN handleApproval(instanceId, instance,
                            fromTransitions(instance.currentStepId), flag)
        ELSE { Outcome("ok", instance, workflowStepAssignments) }

takeAction(instanceId, userId, actionType, flag) ==
    /\ UNCHANGED <<tables, seqs, open>>
    /\ IF instanceId \notin DOMAIN workflowInstances
       THEN /\ last' = Call("takeAction", instanceId, userId, actionType, flag,
                            "NotFoundError")
            /\ UNCHANGED <<workflowInstances, workflowStepAssignments,
                           workflowActions, actionSeq, now, accepted>>
       ELSE IF ~Authorized(workflowInstances[instanceId], userId)
       THEN /\ last' = Call("takeAction", instanceId, userId, actionType, flag,
                            "UnauthorizedActionError")
            /\ UNCHANGED <<workflowInstances, workflowStepAssignments,
                           workflowActions, actionSeq, now, accepted>>
       ELSE \E out \in Outcomes(instanceId, workflowInstances[instanceId],
                                actionType, flag) :
              /\ actionSeq < MaxActions
              /\ actionSeq' = actionSeq + 1
              /\ last' = Call("takeAction", instanceId, userId, actionType, flag,
                              out.err)
              /\ IF out.err = "ok"
                 THEN /\ workflowActions' =
                            InsertAction(workflowActions,
                                ActionRow(actionSeq + 1, instanceId,
                                          workflowInstances[instanceId].currentStepId,
                                          userId, actionType))
                      /\ workflowInstances' =
                            [workflowInstances EXCEPT ![instanceId] = out.instance]
                      /\ workflowStepAssignments' = out.assignments
                      /\ accepted' = [accepted EXCEPT ![instanceId] = @ + 1]
                      /\ now' = now + 1
                 ELSE UNCHANGED <<workflowInstances, workflowStepAssignments,
                                  workflowActions, now, accepted>>

----------------------------------------------------------------------------
Next ==
    \/ \E templateId \in RequestedTemplates : startWorkflow(templateId)
    \/ \E instanceId \in 1..MaxInstances, userId \in Users,
          actionType \in ActionTypes, flag \in BOOLEAN :
          \* the context of a condition is read by an APPROVE only
          /\ actionType # "APPROVE" => ~flag
          /\ takeAction(instanceId, userId, actionType, flag)

Spec == Init /\ [][Next]_vars

----------------------------------------------------------------------------
\* createWorkflowTemplate

\* Bound of the model: calls of createWorkflowTemplate.
MaxTemplates == 2

InputStep(o, r, cm, rej) ==
    [stepOrder |-> o, roleId |-> r, canModify |-> cm, rejectionStepId |-> rej]

\* What callers may send.  Step ids in transitions and rejection targets are
\* plain numbers chosen by the caller before any step of the call exists.
TemplateInputs ==
    { \* two steps, one transition between ids 1 and 2, both reject to id 1
      [steps |-> << InputStep(1, 1, FALSE, 1), InputStep(2, 2, TRUE, 1) >>,
       transitions |-> << TransitionRow(1, 2, NoCond) >>],
      \* two steps of the same order, one rejecting to an id of no step
      [steps |-> << InputStep(1, 2, TRUE, NULL), InputStep(1, 1, FALSE, 7) >>,
       transitions |-> << TransitionRow(1, 1, NoCond) >>],
      \* no steps, one transition
      [steps |-> << >>,
       transitions |-> << TransitionRow(1, 2, NoCond) >>],
      \* one step, no transitions
      [steps |-> << InputStep(1, 1, FALSE, NULL) >>,
       transitions |-> << >>],
      \* a step whose role is no row of roles
      [steps |-> << InputStep(1, 9, FALSE, NULL) >>,
       transitions |-> << TransitionRow(1, 1, NoCond) >>],
      \* a transition to an id of no step
      [steps |-> << InputStep(1, 2, TRUE, NULL) >>,
       transitions |-> << TransitionRow(1, 9, NoCond) >> ] }

CreateCall(id, input, e) ==
    [op |-> "createWorkflowTemplate", id |-> id, input |-> input, err |-> e]

\* workflow_steps.role_id references roles.id: the index of the first step
\* whose insert violates the foreign key, or 0.
FirstBadRole(steps) ==
    IF \A k \in DOMAIN steps : steps[k].roleId \in Roles THEN 0
    ELSE CHOOSE k \in DOMAIN steps :
            /\ steps[k].roleId \notin Roles
            /\ \A j \in 1..(k - 1) : steps[j].roleId \in Roles

\* The step table after input.steps.map(insert): the steps get the next
\* identity values in input order; rejectionStepId is stored as sent.
StepsInserted(templateId, steps) ==
    [s \in DOMAIN workflowSteps \cup { stepSeq + k : k \in DOMAIN steps } |->
        IF s \in DOMAIN workflowSteps THEN workflowSteps[s]
        ELSE StepRow(templateId, steps[s - stepSeq].stepOrder,
                     steps[s - stepSeq].roleId, steps[s - stepSeq].canModify,
                     steps[s - stepSeq].rejectionStepId)]

\* The transition table after insert(workflowStepTransitions).values(...):
\* the rows are stored as sent.
TransitionsInserted(transitions) ==
    [t \in DOMAIN workflowStepTransitions
            \cup { transitionSeq + k : k \in DOMAIN transitions } |->
        IF t \in DOMAIN workflowStepTransitions THEN workflowStepTransitions[t]
        ELSE transitions[t - transitionSeq]]

\* from_step_id and to_step_id reference workflow_steps.id (of any template).
TransitionsReferSteps(transitions, steps) ==
    \A k \in DOMAIN transitions :
        /\ transitions[k].fromStepId \in DOMAIN steps
        /\ transitions[k].toStepId \in DOMAIN steps

createWorkflowTemplate(input) ==
    LET id == templateSeq + 1
        n == Len(input.steps)
        m == Len(input.transitions)
        bad == FirstBadRole(input.steps)
        steps == StepsInserted(id, input.steps)
    IN  /\ templateSeq < MaxTemplates
        /\ templateSeq' = id
        /\ UNCHANGED <<userRoles, workflowInstances, workflowStepAssignments,
                       workflowActions, actionSeq, now, accepted, open>>
        /\ IF bad # 0
           THEN \* a step insert fails: the transaction is rolled back
                /\ last' = CreateCall(id, input, "ForeignKeyViolation")
                /\ stepSeq' = stepSeq + bad
                /\ UNCHANGED <<workflowTemplates, workflowSteps,
                               workflowStepTransitions, transitionSeq>>
           ELSE IF n > 0 /\ m = 0
           THEN \* values([]) throws in the query builder
                /\ last' = CreateCall(id, input, "EmptyValuesError")
                /\ stepSeq' = stepSeq + n
                /\ UNCHANGED <<workflowTemplates, workflowSteps,
                               workflowStepTransitions, transitionSeq>>
           ELSE IF n > 0 /\ ~TransitionsReferSteps(input.transitions, steps)
           THEN /\ last' = CreateCall(id, input, "ForeignKeyViolation")
                /\ stepSeq' = stepSeq + n
                /\ transitionSeq' = transitionSeq + m
                /\ UNCHANGED <<workflowTemplates, workflowSteps,
                               workflowStepTransitions>>
           ELSE /\ last' = CreateCall(id, input, "ok")
                /\ workflowTemplates' = workflowTemplates \cup {id}
                /\ workflowSteps' = steps
                /\ stepSeq' = stepSeq + n
                /\ IF n > 0
                   THEN /\ workflowStepTransitions' =
                              TransitionsInserted(input.transitions)
                        /\ transitionSeq' = transitionSeq + m
                   ELSE UNCHANGED <<workflowStepTransitions, transitionSeq>>

InitTemplate ==
    /\ workflowTemplates = {}
    /\ workflowSteps = << >>
    /\ workflowStepTransitions = << >>
    /\ userRoles \in UserRoleTables
    /\ workflowInstances = << >>
    /\ workflowStepAssignments = << >>
    /\ workflowActions = << >>
    /\ actionSeq = 0
    /\ now = 0
    /\ accepted = << >>
    /\ last = Call("none", NULL, NoUser, "-", FALSE, "ok")
    /\ templateSeq = 0
    /\ stepSeq = 0
    /\ transitionSeq = 0
    /\ open = [p \in Txs |-> Idle]

NextTemplate ==
    \/ \E input \in TemplateInputs : createWorkflowTemplate(input)
    \/ \E templateId \in RequestedTemplates : startWorkflow(templateId)
    \/ \E instanceId \in 1..MaxInstances, userId \in Users,
          actionType \in ActionTypes, flag \in BOOLEAN :
          /\ actionType # "APPROVE" => ~flag
          /\ takeAction(instanceId, userId, actionType, flag)

SpecTemplate == InitTemplate /\ [][NextTemplate]_vars

----------------------------------------------------------------------------
\* takeAction, statement by statement.  db.transaction is called without an
\* isolation level and the instance is read with a plain findFirst (no row
\* lock), so under PostgreSQL's default READ COMMITTED another transaction
\* may commit between the read and the writes of a call.  The read is one
\* step; the authorization on the row as read, the insert, the handler's
\* writes and the commit are the other.

\* tx.query.workflowInstances.findFirst(...): the call keeps the row it read.
\* readAt counts the calls accepted on the instance before the read.
BeginTakeAction(p, instanceId, userId, actionType, flag) ==
    /\ open[p].pc = "idle"
    /\ UNCHANGED <<tables, seqs, workflowInstances, workflowStepAssignments,
                   workflowActions, actionSeq, now, accepted>>
    /\ IF instanceId \notin DOMAIN workflowInstances
       THEN /\ last' = Call("takeAction", instanceId, userId, actionType, flag,
                            "NotFoundError")
            /\ UNCHANGED open
       ELSE /\ open' = [open EXCEPT ![p] =
                          [pc |-> "read", instanceId |-> instanceId,
                           userId |-> userId, actionType |-> actionType,
                           flag |-> flag,
                           instance |-> workflowInstances[instanceId],
                           readAt |-> accepted[instanceId]]]
            /\ UNCHANGED last

\* The handlers update the columns they set on the row as it now stands.
Updated(current, read, written) ==
    [f \in DOMAIN current |->
        IF written[f] # read[f] THEN written[f] ELSE current[f]]

FinishTakeAction(p) ==
    /\ open[p].pc = "read"
    /\ UNCHANGED <<tables, seqs>>
    /\ LET t == open[p]
           done(e) == [pc |-> "done", instanceId |-> t.instanceId,
                       readAt |-> t.readAt, err |-> e]
       IN  IF ~Authorized(t.instance, t.userId)
           THEN /\ last' = Call("takeAction", t.instanceId, t.userId,
                                t.actionType, t.flag, "UnauthorizedActionError")
                /\ open' = [open EXCEPT ![p] = done("UnauthorizedActionError")]
                /\ UNCHANGED <<workflowInstances, workflowStepAssignments,
                               workflowActions, actionSeq, now, accepted>>
           ELSE \E out \in Outcomes(t.instanceId, t.instance, t.actionType, t.flag) :
                  /\ actionSeq < MaxActions
                  /\ actionSeq' = actionSeq + 1
                  /\ last' = Call("takeAction", t.instanceId, t.userId,
                                  t.actionType, t.flag, out.err)
                  /\ open' = [open EXCEPT ![p] = done(out.err)]
                  /\ IF out.err = "ok"
                     THEN /\ workflowActions' =
                                InsertAction(workflowActions,
                                    ActionRow(actionSeq + 1, t.instanceId,
                                              t.instance.currentStepId,
                                              t.userId, t.actionType))
                          /\ workflowInstances' =
                                [workflowInstances EXCEPT ![t.instanceId] =
                                    Updated(@, t.instance, out.instance)]
                          /\ workflowStepAssignments' = out.assignments
                          /\ accepted' = [accepted EXCEPT ![t.instanceId] = @ + 1]
                          /\ now' = now + 1
                     ELSE UNCHANGED <<workflowInstances, workflowStepAssignments,
                                      workflowActions, now, accepted>>

NextConcurrent ==
    \/ \E templateId \in RequestedTemplates : startWorkflow(templateId)
    \/ \E p \in Txs, instanceId \in 1..MaxInstances, userId \in Users,
          actionType \in ActionTypes, flag \in BOOLEAN :
          /\ actionType # "APPROVE" => ~flag
          /\ BeginTakeAction(p, instanceId, userId, actionType, flag)
    \/ \E p \in Txs : FinishTakeAction(p)

SpecConcurrent == Init /\ [][NextConcurrent]_vars

----------------------------------------------------------------------------
\* Vocabulary of the properties.  In a step, last' is the call the step
\* performed (its input and its outcome) and the unprimed tables are the
\* state the call found.

Holds(user, roleId) == <<user, roleId>> \in userRoles
Holders(roleId) == { u \in Users : Holds(u, roleId) }

IsTakeAction == last'.op = "takeAction" /\ last'.id \in DOMAIN workflowInstances
Before == workflowInstances[last'.id]
After == workflowInstances'[last'.id]
ByAssignee == last'.userId = Before.currentAssigneeId
StepBefore == workflowSteps[Before.currentStepId]

RowsOf(log, instanceId) ==
    { k \in DOMAIN log : log[k].workflowInstanceId = instanceId }

AssignmentsFor(asg, instanceId, stepId) ==
    { k \in DOMAIN asg : asg[k].workflowInstanceId = instanceId
                         /\ asg[k].stepId = stepId }

\* The satisfied outgoing transitions of a step in the context of a call.
SatisfiedFrom(stepId, flag) ==
    { t \in DOMAIN workflowStepTransitions :
        /\ workflowStepTransitions[t].fromStepId = stepId
        /\ (workflowStepTransitions[t].conditionType = NoCond \/ flag) }

LastAction == workflowActions[Len(workflowActions)]

----------------------------------------------------------------------------
\* C1: once an instance is COMPLETED or REJECTED its status never changes,
\* and every later takeAction on it fails with InstanceClosedError and adds
\* no row to the action log.
C1_ClosedInstanceRejectsActions ==
    [][ /\ \A i \in DOMAIN workflowInstances :
              workflowInstances[i].status \in Terminal
                  => workflowInstances'[i].status = workflowInstances[i].status
        /\ (IsTakeAction /\ Before.status \in Terminal)
              => /\ last'.err = "InstanceClosedError"
                 /\ workflowActions' = workflowActions ]_vars

----------------------------------------------------------------------------
\* C2: a takeAction whose userId is not the instance's currentAssigneeId
\* fails with UnauthorizedActionError and leaves the persisted state as it
\* was: no action row, same instance rows, same assignment rows.
C2_UnauthorizedChangesNothing ==
    [][ (IsTakeAction /\ ~ByAssignee)
            => /\ last'.err = "UnauthorizedActionError"
               /\ UNCHANGED <<tables, workflowInstances, workflowStepAssignments,
                              workflowActions>> ]_vars

\* An ACTIVE instance has just refused a call of a user other than its assignee.
C2_Witness ==
    /\ last.op = "takeAction"
    /\ last.err = "UnauthorizedActionError"
    /\ last.id \in DOMAIN workflowInstances
    /\ workflowInstances[last.id].status = "ACTIVE"
    /\ workflowInstances[last.id].currentAssigneeId \in Users \ {last.userId}

----------------------------------------------------------------------------
\* C3: an accepted takeAction adds exactly one row to the instance's action
\* log, ordered after every row already there; a failed takeAction adds none.
\* Hence the rows of an instance are as many as the accepted calls on it.
C3_OneRowPerAcceptedCall ==
    /\ [](\A i \in DOMAIN workflowInstances :
              Cardinality(RowsOf(workflowActions, i)) = accepted[i])
    /\ [][ last'.op = "takeAction"
            => IF last'.err = "ok"
               THEN /\ Len(workflowActions') = Len(workflowActions) + 1
                    /\ SubSeq(workflowActions', 1, Len(workflowActions))
                          = workflowActions
                    /\ workflowActions'[Len(workflowActions')].workflowInstanceId
                          = last'.id
                    /\ \A k \in DOMAIN workflowActions :
                          workflowActions[k].id
                              < workflowActions'[Len(workflowActions')].id
               ELSE workflowActions' = workflowActions ]_vars

\* Two accepted calls on one instance left two rows, the later one last.
C3_Witness ==
    /\ Len(workflowActions) = 2
    /\ workflowActions[1].workflowInstanceId = workflowActions[2].workflowInstanceId
    /\ workflowActions[1].id < workflowActions[2].id
    /\ accepted[workflowActions[1].workflowInstanceId] = 2
    /\ last.op = "takeAction" /\ last.err = "ok"

----------------------------------------------------------------------------
\* C4: an APPROVE by the assignee of an ACTIVE instance whose current step
\* has a satisfied outgoing transition moves currentStep to the toStep of the
\* satisfied transition of lowest identity and leaves the instance ACTIVE.
\* The call is refused only when no user holds the destination's role
\* (NoEligibleAssigneeError, the instance is then as before).
C4_ApproveTakesLowestSatisfied ==
    [][ (/\ IsTakeAction /\ ByAssignee
         /\ last'.actionType = "APPROVE"
         /\ Before.status = "ACTIVE"
         /\ SatisfiedFrom(Before.currentStepId, last'.flag) # {})
        => LET sat == SatisfiedFrom(Before.currentStepId, last'.flag)
               t == CHOOSE x \in sat : \A y \in sat : x <= y
               dest == workflowStepTransitions[t].toStepId
           IN  /\ (last'.err = "ok") <=> (Holders(workflowSteps[dest].roleId) # {})
               /\ last'.err = "ok"
                    => /\ After.currentStepId = dest
                       /\ After.status = "ACTIVE"
               /\ last'.err # "ok"
                    => /\ last'.err = "NoEligibleAssigneeError"
                       /\ After = Before ]_vars

\* Step 1 had two unconditioned outgoing transitions; the APPROVE followed
\* the one of lower identity (transition 1, to step 3), not transition 2.
C4_Witness ==
    /\ last.op = "takeAction" /\ last.actionType = "APPROVE" /\ last.err = "ok"
    /\ Len(workflowActions) > 0
    /\ LastAction.stepId = 1
    /\ workflowStepTransitions[1].conditionType = NoCond
    /\ workflowStepTransitions[2].conditionType = NoCond
    /\ workflowStepTransitions[1].toStepId # workflowStepTransitions[2].toStepId
    /\ workflowInstances[last.id].currentStepId = workflowStepTransitions[1].toStepId
    /\ workflowInstances[last.id].status = "ACTIVE"

----------------------------------------------------------------------------
\* C5: an APPROVE by the assignee of an ACTIVE instance whose current step
\* has no satisfied outgoing transition (or no outgoing transition at all)
\* sets status COMPLETED, clears currentAssigneeId and sets completedAt.
C5_ApproveWithoutTransitionCompletes ==
    [][ (/\ IsTakeAction /\ ByAssignee
         /\ last'.actionType = "APPROVE"
         /\ Before.status = "ACTIVE"
         /\ SatisfiedFrom(Before.currentStepId, last'.flag) = {})
        => /\ last'.err = "ok"
           /\ After.status = "COMPLETED"
           /\ After.currentAssigneeId = NoUser
           /\ After.completedAt # NULL ]_vars

\* An instance was completed by an APPROVE at a step that has outgoing
\* transitions, none of them satisfied.
C5_Witness ==
    /\ last.op = "takeAction" /\ last.actionType = "APPROVE" /\ last.err = "ok"
    /\ Len(workflowActions) > 0
    /\ \E t \in DOMAIN workflowStepTransitions :
          workflowStepTransitions[t].fromStepId = LastAction.stepId
    /\ SatisfiedFrom(LastAction.stepId, last.flag) = {}
    /\ workflowInstances[last.id].status = "COMPLETED"
    /\ workflowInstances[last.id].currentAssigneeId = NoUser
    /\ workflowInstances[last.id].completedAt # NULL

----------------------------------------------------------------------------
\* C6: a REJECT by the assignee of an ACTIVE instance whose current step has
\* no rejection target sets status REJECTED, clears currentAssigneeId and
\* sets completedAt.
C6_RejectWithoutTargetRejects ==
    [][ (/\ IsTakeAction /\ ByAssignee
         /\ last'.actionType = "REJECT"
         /\ Before.status = "ACTIVE"
         /\ StepBefore.rejectionStepId = NULL)
        => /\ After.status = "REJECTED"
           /\ After.currentAssigneeId = NoUser
           /\ After.completedAt # NULL ]_vars

----------------------------------------------------------------------------
\* C7: a REJECT by the assignee of an ACTIVE instance whose current step has
\* a rejection target leaves the instance ACTIVE, makes the target the
\* current step, makes a holder of the target's role the assignee and adds
\* one PENDING assignment row for the target, also when the target was
\* visited before.  The call is refused only when no user holds the target's
\* role (NoEligibleAssigneeError, the instance is then as before).
C7_RejectMovesToTarget ==
    [][ (/\ IsTakeAction /\ ByAssignee
         /\ last'.actionType = "REJECT"
         /\ Before.status = "ACTIVE"
         /\ StepBefore.rejectionStepId # NULL)
        => LET dest == StepBefore.rejectionStepId
           IN  /\ (last'.err = "ok") <=> (Holders(workflowSteps[dest].roleId) # {})
               /\ last'.err = "ok"
                    => /\ After.status = "ACTIVE"
                       /\ After.currentStepId = dest
                       /\ Holds(After.currentAssigneeId, workflowSteps[dest].roleId)
                       /\ Len(workflowStepAssignments')
                             = Len(workflowStepAssignments) + 1
                       /\ workflowStepAssignments'[Len(workflowStepAssignments')]
                             = AssignmentRow(last'.id, dest, After.currentAssigneeId)
                       /\ Cardinality(AssignmentsFor(workflowStepAssignments',
                                                     last'.id, dest))
                             = Cardinality(AssignmentsFor(workflowStepAssignments,
                                                          last'.id, dest)) + 1
               /\ last'.err # "ok"
                    => /\ last'.err = "NoEligibleAssigneeError"
                       /\ After = Before
                       /\ workflowStepAssignments' = workflowStepAssignments ]_vars

\* A REJECT at step 2 sent the instance back to step 1, visited before: it
\* is ACTIVE at step 1 with two assignment rows for step 1, the newer PENDING.
C7_Witness ==
    /\ last.op = "takeAction" /\ last.actionType = "REJECT" /\ last.err = "ok"
    /\ Len(workflowActions) > 0
    /\ LastAction.stepId = 2
    /\ workflowInstances[last.id].status = "ACTIVE"
    /\ workflowInstances[last.id].currentStepId = 1
    /\ Cardinality(AssignmentsFor(workflowStepAssignments, last.id, 1)) = 2
    /\ workflowStepAssignments[Len(workflowStepAssignments)].status = "PENDING"

----------------------------------------------------------------------------
\* C8: a MODIFY by the current assignee at a step with canModify = false
\* fails with ForbiddenActionError, adds no action row and leaves the
\* instance unchanged.
C8_ModifyForbiddenWithoutCanModify ==
    [][ (/\ IsTakeAction /\ ByAssignee
         /\ last'.actionType = "MODIFY"
         /\ ~StepBefore.canModify)
        => /\ last'.err = "ForbiddenActionError"
           /\ workflowActions' = workflowActions
           /\ After = Before ]_vars

----------------------------------------------------------------------------
\* C9: a MODIFY by the current assignee of an ACTIVE instance at a step with
\* canModify = true records one action row and leaves the instance's step,
\* assignee, status and completedAt, and every assignment row, unchanged.
C9_ModifyRecordsAndHolds ==
    [][ (/\ IsTakeAction /\ ByAssignee
         /\ last'.actionType = "MODIFY"
         /\ Before.status = "ACTIVE"
         /\ StepBefore.canModify)
        => /\ last'.err = "ok"
           /\ Len(workflowActions') = Len(workflowActions) + 1
           /\ SubSeq(workflowActions', 1, Len(workflowActions)) = workflowActions
           /\ workflowActions'[Len(workflowActions')].workflowInstanceId = last'.id
           /\ workflowActions'[Len(workflowActions')].actionType = "MODIFY"
           /\ After.currentStepId = Before.currentStepId
           /\ After.currentAssigneeId = Before.currentAssigneeId
           /\ After.status = Before.status
           /\ After.completedAt = Before.completedAt
           /\ workflowStepAssignments' = workflowStepAssignments ]_vars

\* A MODIFY was recorded at a step that permits it; the instance is still
\* ACTIVE at that step with the same assignee.
C9_Witness ==
    /\ last.op = "takeAction" /\ last.actionType = "MODIFY" /\ last.err = "ok"
    /\ Len(workflowActions) > 0
    /\ LastAction.actionType = "MODIFY"
    /\ workflowSteps[LastAction.stepId].canModify
    /\ workflowInstances[last.id].status = "ACTIVE"
    /\ workflowInstances[last.id].currentStepId = LastAction.stepId
    /\ workflowInstances[last.id].currentAssigneeId = LastAction.userId

----------------------------------------------------------------------------
\* C10: startWorkflow either creates one ACTIVE instance of the requested
\* template at a step of order 1, assigned to a holder of that step's role,
\* with exactly one PENDING assignment row (that step, that user); or it
\* fails (template missing, no step of order 1, no holder of the role) and
\* creates neither an instance nor an assignment row.
C10_StartIsAllOrNothing ==
    [][ last'.op = "startWorkflow"
        => IF last'.err = "ok"
           THEN LET id == Len(workflowInstances) + 1
                    new == workflowInstances'[id]
                IN  /\ Len(workflowInstances') = id
                    /\ SubSeq(workflowInstances', 1, id - 1) = workflowInstances
                    /\ new.status = "ACTIVE"
                    /\ new.workflowTemplateId = last'.id
                    /\ new.currentStepId \in DOMAIN workflowSteps
                    /\ workflowSteps[new.currentStepId].workflowTemplateId = last'.id
                    /\ workflowSteps[new.currentStepId].stepOrder = 1
                    /\ Holds(new.currentAssigneeId,
                             workflowSteps[new.currentStepId].roleId)
                    /\ workflowStepAssignments' =
                          Append(workflowStepAssignments,
                                 AssignmentRow(id, new.currentStepId,
                                               new.currentAssigneeId))
                    /\ Cardinality(RowsOf(workflowStepAssignments', id)) = 1
           ELSE /\ workflowInstances' = workflowInstances
                /\ workflowStepAssignments' = workflowStepAssignments
                /\ \/ last'.id \notin workflowTemplates
                   \/ \A s \in DOMAIN workflowSteps :
                         workflowSteps[s].workflowTemplateId = last'.id
                             => workflowSteps[s].stepOrder # 1
                   \/ \E s \in DOMAIN workflowSteps :
                         /\ workflowSteps[s].workflowTemplateId = last'.id
                         /\ workflowSteps[s].stepOrder = 1
                         /\ Holders(workflowSteps[s].roleId) = {} ]_vars

\* A workflow was started on a template whose entry role has two holders:
\* the instance is ACTIVE at the entry step with its one PENDING row.
C10_Witness ==
    /\ last.op = "startWorkflow" /\ last.err = "ok"
    /\ Len(workflowInstances) > 0
    /\ LET new == workflowInstances[Len(workflowInstances)]
       IN  /\ new.status = "ACTIVE"
           /\ workflowSteps[new.currentStepId].stepOrder = 1
           /\ Cardinality(Holders(workflowSteps[new.currentStepId].roleId)) = 2
           /\ Holds(new.currentAssigneeId, workflowSteps[new.currentStepId].roleId)
           /\ Cardinality(RowsOf(workflowStepAssignments, Len(workflowInstances))) = 1

----------------------------------------------------------------------------
\* Vocabulary of the properties of createWorkflowTemplate.  After a call,
\* last holds its input and outcome and the identity sequences stand where
\* the call left them.

IsCreate == last.op = "createWorkflowTemplate"

TemplateOf(stepId) == workflowSteps[stepId].workflowTemplateId

\* The ids the steps of the last call received.
SuppliedSteps == (stepSeq - Len(last.input.steps) + 1)..stepSeq

\* The last call sent a transition or a rejection target that is none of
\* the steps of that call.
RefersOutside ==
    \/ \E k \in DOMAIN last.input.transitions :
          \/ last.input.transitions[k].fromStepId \notin SuppliedSteps
          \/ last.input.transitions[k].toStepId \notin SuppliedSteps
    \/ \E k \in DOMAIN last.input.steps :
          /\ last.input.steps[k].rejectionStepId # NULL
          /\ last.input.steps[k].rejectionStepId \notin SuppliedSteps

----------------------------------------------------------------------------
\* C11: every persisted transition joins two steps of one template and every
\* persisted rejectionStepId is a step of the step's own template; a
\* createWorkflowTemplate call that refers to a step outside the steps it
\* supplies fails and persists nothing.
C11_ReferencesStayInsideTemplate ==
    /\ \A t \in DOMAIN workflowStepTransitions :
          /\ workflowStepTransitions[t].fromStepId \in DOMAIN workflowSteps
          /\ workflowStepTransitions[t].toStepId \in DOMAIN workflowSteps
          /\ TemplateOf(workflowStepTransitions[t].fromStepId)
                = TemplateOf(workflowStepTransitions[t].toStepId)
    /\ \A s \in DOMAIN workflowSteps :
          workflowSteps[s].rejectionStepId # NULL
              => /\ workflowSteps[s].rejectionStepId \in DOMAIN workflowSteps
                 /\ TemplateOf(workflowSteps[s].rejectionStepId) = TemplateOf(s)
    /\ (IsCreate /\ RefersOutside)
          => /\ last.err # "ok"
             /\ last.id \notin workflowTemplates

----------------------------------------------------------------------------
\* C13: between operations every ACTIVE instance is at a step of its own
\* template and has an assignee who holds the role of that step.
C13_ActiveInstanceIsWellPlaced ==
    \A i \in DOMAIN workflowInstances :
        workflowInstances[i].status = "ACTIVE"
            => /\ workflowInstances[i].currentStepId \in DOMAIN workflowSteps
               /\ TemplateOf(workflowInstances[i].currentStepId)
                     = workflowInstances[i].workflowTemplateId
               /\ workflowInstances[i].currentAssigneeId # NoUser
               /\ <<workflowInstances[i].currentAssigneeId,
                    workflowSteps[workflowInstances[i].currentStepId].roleId>>
                     \in userRoles

----------------------------------------------------------------------------
\* C15: createWorkflowTemplate is all-or-nothing: after a successful call
\* the template, every supplied step and every supplied transition are
\* persisted; after a failed call none of them is.
C15_CreateIsAllOrNothing ==
    [][ last'.op = "createWorkflowTemplate"
        => IF last'.err = "ok"
           THEN /\ last'.id \in workflowTemplates'
                /\ Cardinality({ s \in DOMAIN workflowSteps' :
                                   workflowSteps'[s].workflowTemplateId = last'.id })
                      = Len(last'.input.steps)
                /\ Cardinality(DOMAIN workflowStepTransitions')
                      = Cardinality(DOMAIN workflowStepTransitions)
                           + Len(last'.input.transitions)
                /\ \A k \in DOMAIN last'.input.transitions :
                      \E t \in DOMAIN workflowStepTransitions'
                                  \ DOMAIN workflowStepTransitions :
                          workflowStepTransitions'[t] = last'.input.transitions[k]
           ELSE UNCHANGED <<workflowTemplates, workflowSteps,
                            workflowStepTransitions>> ]_vars

----------------------------------------------------------------------------
\* C16: createWorkflowTemplate fails with ValidationError and persists
\* nothing when two supplied steps have the same stepOrder; hence no
\* template has two steps of the same stepOrder.
C16_StepOrdersAreUnique ==
    /\ \A s1, s2 \in DOMAIN workflowSteps :
          (s1 # s2 /\ TemplateOf(s1) = TemplateOf(s2))
              => workflowSteps[s1].stepOrder # workflowSteps[s2].stepOrder
    /\ (/\ IsCreate
        /\ \E j, k \in DOMAIN last.input.steps :
              j # k /\ last.input.steps[j].stepOrder = last.input.steps[k].stepOrder)
          => /\ last.err = "ValidationError"
             /\ last.id \notin workflowTemplates

----------------------------------------------------------------------------
\* C14: completedAt is set exactly when status is COMPLETED or REJECTED,
\* and once set no later operation changes it.
C14_CompletedAtSetOnceOnClose ==
    /\ [](\A i \in DOMAIN workflowInstances :
              (workflowInstances[i].completedAt # NULL)
                  <=> (workflowInstances[i].status \in Terminal))
    /\ [][ \A i \in DOMAIN workflowInstances :
              workflowInstances[i].completedAt # NULL
                  => workflowInstances'[i].completedAt
                        = workflowInstances[i].completedAt ]_vars

\* A closed instance carries its completion time, and a later call on it
\* has been made.
C14_Witness ==
    /\ last.op = "takeAction" /\ last.err = "UnauthorizedActionError"
    /\ last.id \in DOMAIN workflowInstances
    /\ workflowInstances[last.id].status = "COMPLETED"
    /\ workflowInstances[last.id].completedAt # NULL
    /\ workflowInstances[last.id].completedAt < now + 1

----------------------------------------------------------------------------
\* C17: an accepted takeAction that moves the instance to a destination
\* step (approve-advance, reject-to-target) creates exactly one PENDING
\* assignment row for the destination and completes, with a completion time,
\* the row of the step being left; a MODIFY or a REJECT without target
\* creates and changes no assignment row.  Hence every ACTIVE instance has
\* exactly one PENDING row, for its current step and current assignee.
C17_AssignmentsFollowInstance ==
    /\ [](\A i \in DOMAIN workflowInstances :
            workflowInstances[i].status = "ACTIVE"
              => \E k \in DOMAIN workflowStepAssignments :
                   /\ workflowStepAssignments[k].workflowInstanceId = i
                   /\ workflowStepAssignments[k].status = "PENDING"
                   /\ workflowStepAssignments[k].stepId
                         = workflowInstances[i].currentStepId
                   /\ workflowStepAssignments[k].assigneeId
                         = workflowInstances[i].currentAssigneeId
                   /\ \A j \in DOMAIN workflowStepAssignments :
                         (/\ workflowStepAssignments[j].workflowInstanceId = i
                          /\ workflowStepAssignments[j].status = "PENDING")
                            => j = k)
    /\ [][ (IsTakeAction /\ last'.err = "ok")
            => LET moves ==
                     \/ /\ last'.actionType = "APPROVE"
                        /\ SatisfiedFrom(Before.currentStepId, last'.flag) # {}
                     \/ /\ last'.actionType = "REJECT"
                        /\ StepBefore.rejectionStepId # NULL
                   stays ==
                     \/ last'.actionType = "MODIFY"
                     \/ /\ last'.actionType = "REJECT"
                        /\ StepBefore.rejectionStepId = NULL
                   n == Len(workflowStepAssignments)
               IN  /\ moves =>
                        /\ Len(workflowStepAssignments') = n + 1
                        /\ workflowStepAssignments'[n + 1].workflowInstanceId = last'.id
                        /\ workflowStepAssignments'[n + 1].stepId = After.currentStepId
                        /\ workflowStepAssignments'[n + 1].status = "PENDING"
                        /\ \A k \in 1..n :
                             IF /\ workflowStepAssignments[k].workflowInstanceId
                                      = last'.id
                                /\ workflowStepAssignments[k].stepId
                                      = Before.currentStepId
                                /\ workflowStepAssignments[k].status = "PENDING"
                             THEN /\ workflowStepAssignments'[k].status = "COMPLETED"
                                  /\ workflowStepAssignments'[k].completedAt # NULL
                             ELSE workflowStepAssignments'[k]
                                      = workflowStepAssignments[k]
                   /\ stays => workflowStepAssignments' = workflowStepAssignments
         ]_vars

\* An APPROVE moved the instance on: the row of the step left is COMPLETED
\* with its completion time and the row of the current step is PENDING.
C17_Witness ==
    /\ last.op = "takeAction" /\ last.actionType = "APPROVE" /\ last.err = "ok"
    /\ workflowInstances[last.id].status = "ACTIVE"
    /\ Len(workflowStepAssignments) = 2
    /\ workflowStepAssignments[1].status = "COMPLETED"
    /\ workflowStepAssignments[1].completedAt # NULL
    /\ workflowStepAssignments[1].stepId # workflowInstances[last.id].currentStepId
    /\ workflowStepAssignments[2].status = "PENDING"
    /\ workflowStepAssignments[2].stepId = workflowInstances[last.id].currentStepId

----------------------------------------------------------------------------
\* C18: when an APPROVE or REJECT by the assignee would move the instance to
\* a step whose role has no holder, takeAction fails with
\* NoEligibleAssigneeError and commits nothing: no action row, no assignment
\* row added or changed, instance as before.
C18_NoHolderCommitsNothing ==
    [][ (/\ IsTakeAction /\ ByAssignee
         /\ Before.status = "ACTIVE"
         /\ LET sat == SatisfiedFrom(Before.currentStepId, last'.flag)
                dest == IF last'.actionType = "REJECT"
                        THEN StepBefore.rejectionStepId
                        ELSE IF last'.actionType = "APPROVE" /\ sat # {}
                        THEN workflowStepTransitions[
                                CHOOSE x \in sat : \A y \in sat : x <= y].toStepId
                        ELSE NULL
            IN  /\ dest \in DOMAIN workflowSteps
                /\ Holders(workflowSteps[dest].roleId) = {})
        => /\ last'.err = "NoEligibleAssigneeError"
           /\ UNCHANGED <<workflowInstances, workflowStepAssignments,
                          workflowActions>> ]_vars

\* A call by the assignee was refused for want of a holder: the instance is
\* ACTIVE with the same assignee, and the identity value the call drew for
\* its action row is missing from the log.
C18_Witness ==
    /\ last.op = "takeAction" /\ last.err = "NoEligibleAssigneeError"
    /\ workflowInstances[last.id].status = "ACTIVE"
    /\ workflowInstances[last.id].currentAssigneeId = last.userId
    /\ actionSeq > 0
    /\ \A k \in DOMAIN workflowActions : workflowActions[k].id # actionSeq

----------------------------------------------------------------------------
\* C19: the action row written by an accepted takeAction records the step
\* the instance was at before the transition and the assignee of that
\* moment; no operation modifies or removes a row of the log.
C19_ActionRowsRecordTheStepLeft ==
    [][ /\ Len(workflowActions') >= Len(workflowActions)
        /\ SubSeq(workflowActions', 1, Len(workflowActions)) = workflowActions
        /\ (IsTakeAction /\ last'.err = "ok")
              => /\ Len(workflowActions') = Len(workflowActions) + 1
                 /\ workflowActions'[Len(workflowActions')].stepId
                       = Before.currentStepId
                 /\ workflowActions'[Len(workflowActions')].userId
                       = Before.currentAssigneeId ]_vars

\* Two rows: the first, written at step 1, is intact after a later call that
\* moved the instance away from the step its own row records.
C19_Witness ==
    /\ last.op = "takeAction" /\ last.err = "ok"
    /\ Len(workflowActions) = 2
    /\ workflowActions[1].stepId = 1
    /\ workflowActions[1].id < workflowActions[2].id
    /\ workflowActions[2].workflowInstanceId = last.id
    /\ workflowActions[2].stepId # workflowInstances[last.id].currentStepId

----------------------------------------------------------------------------
\* C20: no takeAction changes an instance's workflowTemplateId, entityType
\* or entityId, and no takeAction or startWorkflow changes a template, step
\* or transition record.
C20_TemplateAndEntityAreFixed ==
    [][ last'.op \in {"takeAction", "startWorkflow"}
        => /\ UNCHANGED <<workflowTemplates, workflowSteps, workflowStepTransitions>>
           /\ \A i \in DOMAIN workflowInstances :
                 /\ i \in DOMAIN workflowInstances'
                 /\ workflowInstances'[i].workflowTemplateId
                       = workflowInstances[i].workflowTemplateId
                 /\ workflowInstances'[i].entityType
                       = workflowInstances[i].entityType
                 /\ workflowInstances'[i].entityId
                       = workflowInstances[i].entityId ]_vars

\* An instance has been moved by an accepted call and still carries the
\* template of the step it started at and the entity it was started for.
C20_Witness ==
    /\ last.op = "takeAction" /\ last.err = "ok"
    /\ Len(workflowActions) > 0
    /\ LastAction.stepId # workflowInstances[last.id].currentStepId
    /\ workflowInstances[last.id].workflowTemplateId
          = workflowSteps[workflowActions[1].stepId].workflowTemplateId
    /\ workflowInstances[last.id].entityType = "invoice"
    /\ workflowInstances[last.id].entityId = 42

----------------------------------------------------------------------------
\* C12: concurrent takeAction calls on one instance are serialized: the
\* second either sees the state committed by the first or fails; two calls
\* are never both accepted on the same read of the instance.
C12_AcceptedCallsReadDistinctStates ==
    \A p, q \in Txs :
        (/\ p # q
         /\ open[p].pc = "done" /\ open[q].pc = "done"
         /\ open[p].err = "ok" /\ open[q].err = "ok"
         /\ open[p].instanceId = open[q].instanceId)
            => open[p].readAt # open[q].readAt
====
